---- MODULE Spec2Model ----
(***************************************************************************)
(* A model of gocardless-unofficial: the typed client of the GoCardless    *)
(* Bank Account Data API (src/src/client.rs) and its serde data model      *)
(* (src/src/model.rs).                                                     *)
(*                                                                         *)
(* Strings are TLA+ strings, format! is string concatenation.  A JSON      *)
(* document is a tagged value; serde's derived Deserialize is the operator *)
(* Decode, driven by a descriptor of the Rust type.  A handler is split at *)
(* its one await on the transport: the call part builds and sends the      *)
(* request, the resume part turns the transport's outcome into the result. *)
(***************************************************************************)
EXTENDS Integers, Sequences, FiniteSets, Bags, TLC

VARIABLES
    client,        \* Option<Client>: the client Client::new has returned to the caller
    constructing,  \* Option: Client::new suspended in create_token, with its local c
    inflight,      \* the bag of calls on the client suspended on the transport
    last,          \* Option: the call that returned most recently, with its result
    minted,        \* Option: the token the remote issued to the successful Client::new
    started,       \* number of client operations the caller has invoked
    wire           \* number of requests handed to the transport (send() calls)

vars == <<client, constructing, inflight, last, minted, started, wire>>

(***************************************************************************)
(* Option<T> is a sequence of length at most one.                          *)
(***************************************************************************)
None == <<>>

Some(x) == <<x>>

IsSome(o) == Len(o) = 1

Unwrap(o) == o[1]

(***************************************************************************)
(* Strings                                                                 *)
(***************************************************************************)
\* s contains sub as a substring
Contains(s, sub) ==
    \E i \in 1..(Len(s) - Len(sub) + 1) : SubSeq(s, i, i + Len(sub) - 1) = sub

(***************************************************************************)
(* JSON documents (serde_json::Value)                                      *)
(***************************************************************************)
JNull == [t |-> "null"]

JStr(s) == [t |-> "str", s |-> s]

JNum(n) == [t |-> "num", n |-> n]

JBool(b) == [t |-> "bool", b |-> b]

JArr(a) == [t |-> "arr", a |-> a]

JObj(o) == [t |-> "obj", o |-> o]

\* the strings that occur in a JSON document, keys excluded
RECURSIVE JStrings(_)
JStrings(j) ==
    CASE j.t = "str" -> {j.s}
      [] j.t = "arr" -> UNION {JStrings(j.a[i]) : i \in DOMAIN j.a}
      [] j.t = "obj" -> UNION {JStrings(j.o[k]) : k \in DOMAIN j.o}
      [] OTHER -> {}

(***************************************************************************)
(* Descriptors of the Rust types that derive Deserialize                   *)
(***************************************************************************)
TString == [k |-> "string"]

TBool == [k |-> "bool"]

TI32 == [k |-> "i32"]

TI64 == [k |-> "i64"]

TVec(ty) == [k |-> "vec", of |-> ty]

TOption(ty) == [k |-> "option", of |-> ty]

\* codes: wire code -> variant; dflt: the #[default] variant
TEnum(codes, dflt) == [k |-> "enum", codes |-> codes, dflt |-> dflt]

\* fields: a sequence of Field
TStruct(fields) == [k |-> "struct", fields |-> fields]

\* name: the Rust field; key: the key on the wire after rename/rename_all;
\* dflt: the field carries #[serde(default)]
Field(name, key, ty, dflt) == [name |-> name, key |-> key, ty |-> ty, dflt |-> dflt]

I32Min == -2147483647 - 1

I32Max == 2147483647

Ok(v) == [ok |-> TRUE, v |-> v]

DecodeErr == [ok |-> FALSE]

\* Default::default() of a type
RECURSIVE DefaultOf(_)
DefaultOf(ty) ==
    CASE ty.k = "string" -> ""
      [] ty.k = "bool" -> FALSE
      [] ty.k \in {"i32", "i64"} -> 0
      [] ty.k = "vec" -> <<>>
      [] ty.k = "option" -> None
      [] ty.k = "enum" -> ty.dflt
      [] ty.k = "struct" ->
            [n \in {ty.fields[i].name : i \in DOMAIN ty.fields} |->
                LET i == CHOOSE x \in DOMAIN ty.fields : ty.fields[x].name = n
                IN DefaultOf(ty.fields[i].ty)]

\* serde's derived Deserialize for the type ty on the JSON document j:
\* unknown keys are ignored, a missing key is an error unless the field is an
\* Option or carries #[serde(default)], null is accepted by Option alone.
RECURSIVE Decode(_, _)
Decode(ty, j) ==
    CASE ty.k = "string" -> IF j.t = "str" THEN Ok(j.s) ELSE DecodeErr
      [] ty.k = "bool" -> IF j.t = "bool" THEN Ok(j.b) ELSE DecodeErr
      [] ty.k = "i32" ->
            IF j.t = "num" /\ j.n >= I32Min /\ j.n <= I32Max THEN Ok(j.n) ELSE DecodeErr
      [] ty.k = "i64" -> IF j.t = "num" THEN Ok(j.n) ELSE DecodeErr
      [] ty.k = "vec" ->
            IF j.t = "arr" /\ \A i \in DOMAIN j.a : Decode(ty.of, j.a[i]).ok
            THEN Ok([i \in DOMAIN j.a |-> Decode(ty.of, j.a[i]).v])
            ELSE DecodeErr
      [] ty.k = "option" ->
            IF j.t = "null" THEN Ok(None)
            ELSE LET d == Decode(ty.of, j)
                 IN IF d.ok THEN Ok(Some(d.v)) ELSE DecodeErr
      [] ty.k = "enum" ->
            IF j.t = "str" /\ j.s \in DOMAIN ty.codes THEN Ok(ty.codes[j.s]) ELSE DecodeErr
      [] ty.k = "struct" ->
            IF j.t # "obj" THEN DecodeErr
            ELSE LET get(i) ==
                         LET f == ty.fields[i]
                         IN IF f.key \in DOMAIN j.o THEN Decode(f.ty, j.o[f.key])
                            ELSE IF f.dflt THEN Ok(DefaultOf(f.ty))
                            ELSE IF f.ty.k = "option" THEN Ok(None)
                            ELSE DecodeErr
                 IN IF \A i \in DOMAIN ty.fields : get(i).ok
                    THEN Ok([n \in {ty.fields[i].name : i \in DOMAIN ty.fields} |->
                                get(CHOOSE i \in DOMAIN ty.fields : ty.fields[i].name = n).v])
                    ELSE DecodeErr

\* serde's derived Serialize for a value v of the type ty: a struct writes
\* every field under its wire key (None as null), an enum variant writes the
\* code of its rename
RECURSIVE Encode(_, _)
Encode(ty, v) ==
    CASE ty.k = "string" -> JStr(v)
      [] ty.k = "bool" -> JBool(v)
      [] ty.k \in {"i32", "i64"} -> JNum(v)
      [] ty.k = "vec" -> JArr([i \in DOMAIN v |-> Encode(ty.of, v[i])])
      [] ty.k = "option" -> IF IsSome(v) THEN Encode(ty.of, Unwrap(v)) ELSE JNull
      [] ty.k = "enum" -> JStr(CHOOSE code \in DOMAIN ty.codes : ty.codes[code] = v)
      [] ty.k = "struct" ->
            JObj([key \in {ty.fields[i].key : i \in DOMAIN ty.fields} |->
                    LET i == CHOOSE x \in DOMAIN ty.fields : ty.fields[x].key = key
                    IN Encode(ty.fields[i].ty, v[ty.fields[i].name])])

(***************************************************************************)
(* src/src/model.rs: the response types                                    *)
(***************************************************************************)
\* CreateTokenResponse with #[serde(default)] on its fields, as the list responses have
CreateTokenResponseTy_defaulted ==
    TStruct(<<Field("access", "access", TString, TRUE),
              Field("access_expires", "access_expires", TI32, TRUE),
              Field("refresh", "refresh", TString, TRUE),
              Field("refresh_expires", "refresh_expires", TI32, TRUE)>>)

CreateTokenResponseTy ==
    TStruct(<<Field("access", "access", TString, FALSE),
              Field("access_expires", "access_expires", TI32, FALSE),
              Field("refresh", "refresh", TString, FALSE),
              Field("refresh_expires", "refresh_expires", TI32, FALSE)>>)

InstitutionTy ==
    TStruct(<<Field("id", "id", TString, FALSE),
              Field("name", "name", TString, FALSE),
              Field("bic", "bic", TString, FALSE),
              Field("transaction_total_days", "transaction_total_days", TString, FALSE),
              Field("countries", "countries", TVec(TString), FALSE),
              Field("logo", "logo", TString, FALSE)>>)

EndUserAgreementTy ==
    TStruct(<<Field("id", "id", TString, FALSE),
              Field("created", "created", TString, FALSE),
              Field("institution_id", "institution_id", TString, FALSE),
              Field("max_historical_days", "max_historical_days", TI64, FALSE),
              Field("access_valid_for_days", "access_valid_for_days", TI64, FALSE),
              Field("access_scope", "access_scope", TVec(TString), FALSE)>>)

\* RequisitionStatus with the renames of Linked and Expired exchanged
RequisitionStatusTy_codes_exchanged ==
    TEnum([CR |-> "Created", GC |-> "GivingConsent", UA |-> "UndergoingAuthentication",
           RJ |-> "Rejected", SA |-> "SelectingAccounts", GA |-> "GrantingAccess",
           LN |-> "Expired", EX |-> "Linked"], "Created")

RequisitionStatusTy ==
    TEnum([CR |-> "Created", GC |-> "GivingConsent", UA |-> "UndergoingAuthentication",
           RJ |-> "Rejected", SA |-> "SelectingAccounts", GA |-> "GrantingAccess",
           LN |-> "Linked", EX |-> "Expired"], "Created")

RequisitionTy ==
    TStruct(<<Field("id", "id", TString, FALSE),
              Field("created", "created", TString, FALSE),
              Field("redirect", "redirect", TString, FALSE),
              Field("status", "status", RequisitionStatusTy, FALSE),
              Field("institution_id", "institution_id", TString, FALSE),
              Field("agreement", "agreement", TString, FALSE),
              Field("reference", "reference", TString, FALSE),
              Field("accounts", "accounts", TVec(TString), FALSE),
              Field("user_language", "user_language", TString, FALSE),
              Field("link", "link", TString, FALSE),
              Field("account_selection", "account_selection", TBool, FALSE),
              Field("redirect_immediate", "redirect_immediate", TBool, FALSE)>>)

ListRequisitionsResponseTy ==
    TStruct(<<Field("count", "count", TI64, FALSE),
              Field("results", "results", TVec(RequisitionTy), FALSE)>>)

\* TransactionAmount with a numeric amount
TransactionAmountTy_numeric ==
    TStruct(<<Field("amount", "amount", TI64, FALSE),
              Field("currency", "currency", TString, FALSE)>>)

TransactionAmountTy ==
    TStruct(<<Field("amount", "amount", TString, FALSE),
              Field("currency", "currency", TString, FALSE)>>)

CreditorAccountTy == TStruct(<<Field("bban", "bban", TString, FALSE)>>)

TransactionTy ==
    TStruct(<<Field("transaction_id", "transactionId", TString, FALSE),
              Field("booking_date", "bookingDate", TString, FALSE),
              Field("value_date", "valueDate", TOption(TString), FALSE),
              Field("booking_date_time", "bookingDateTime", TString, FALSE),
              Field("value_date_time", "valueDateTime", TOption(TString), FALSE),
              Field("transaction_amount", "transactionAmount", TransactionAmountTy, FALSE),
              Field("creditor_name", "creditorName", TOption(TString), FALSE),
              Field("remittance_information_unstructured",
                    "remittanceInformationUnstructured", TOption(TString), FALSE),
              Field("proprietary_bank_transaction_code",
                    "proprietaryBankTransactionCode", TOption(TString), FALSE),
              Field("internal_transaction_id", "internalTransactionId",
                    TOption(TString), FALSE),
              Field("debtor_name", "debtorName", TOption(TString), FALSE),
              Field("creditor_account", "creditorAccount",
                    TOption(CreditorAccountTy), FALSE)>>)

TransactionsTy ==
    TStruct(<<Field("booked", "booked", TVec(TransactionTy), FALSE),
              Field("pending", "pending", TVec(TransactionTy), FALSE)>>)

ListTransactionsResponseTy ==
    TStruct(<<Field("transactions", "transactions", TransactionsTy, TRUE)>>)

BalanceAmountTy ==
    TStruct(<<Field("amount", "amount", TString, FALSE),
              Field("currency", "currency", TString, FALSE)>>)

BalanceTy ==
    TStruct(<<Field("balance_amount", "balanceAmount", BalanceAmountTy, FALSE),
              Field("balance_type", "balanceType", TString, FALSE),
              Field("reference_date", "referenceDate", TString, FALSE)>>)

\* ListBalancesResponse without #[serde(default)] on balances
ListBalancesResponseTy_required ==
    TStruct(<<Field("balances", "balances", TVec(BalanceTy), FALSE)>>)

ListBalancesResponseTy ==
    TStruct(<<Field("balances", "balances", TVec(BalanceTy), TRUE)>>)

AccountStatusTy ==
    TEnum([enabled |-> "Enabled", deleted |-> "Deleted", blocked |-> "Blocked"], "Enabled")

AccountUsageTy == TEnum([PRIV |-> "Private", ORGA |-> "Professional"], "Private")

AccountTy ==
    TStruct(<<Field("resource_id", "resourceId", TString, FALSE),
              Field("iban", "iban", TOption(TString), FALSE),
              Field("bban", "bban", TOption(TString), FALSE),
              Field("bic", "bic", TOption(TString), FALSE),
              Field("msisdn", "msisdn", TOption(TString), FALSE),
              Field("currency", "currency", TString, FALSE),
              Field("owner_name", "ownerName", TOption(TString), FALSE),
              Field("owner_address_unstructured", "ownerAddressUnstructured",
                    TOption(TString), FALSE),
              Field("name", "name", TOption(TString), FALSE),
              Field("display_name", "displayName", TOption(TString), FALSE),
              Field("details", "details", TOption(TString), FALSE),
              Field("product", "product", TOption(TString), FALSE),
              Field("cash_account_type", "cashAccountType", TOption(TString), FALSE),
              Field("status", "status", TOption(AccountStatusTy), FALSE),
              Field("linked_accounts", "linkedAccounts", TOption(TString), FALSE),
              Field("usage", "usage", TOption(AccountUsageTy), FALSE)>>)

AccountDetailsResponseTy ==
    TStruct(<<Field("account", "account", TOption(AccountTy), TRUE)>>)

(***************************************************************************)
(* secrecy::SecretString: the wrapper around a secret and its one accessor *)
(***************************************************************************)
IntoSecret(s) == [secret |-> s]

ExposeSecret(x) == x.secret

(***************************************************************************)
(* reqwest::RequestBuilder: a request is its method, URL, headers and body *)
(***************************************************************************)
NoHeaders == [h \in {} |-> ""]

Post(url) == [method |-> "POST", url |-> url, headers |-> NoHeaders, body |-> None]

Get(url) == [method |-> "GET", url |-> url, headers |-> NoHeaders, body |-> None]

\* .body(json!(..).to_string()): the body is the JSON document's text
WithBody(r, json) == [r EXCEPT !.body = Some(json)]

WithHeader(r, name, value) == [r EXCEPT !.headers = (name :> value) @@ @]

\* format!("Bearer {}", access_token)
Bearer(access_token) == "Bearer " \o access_token

(***************************************************************************)
(* src/src/client.rs: the endpoints and the request each operation builds  *)
(***************************************************************************)
URL_CREATE_TOKEN == "https://bankaccountdata.gocardless.com/api/v2/token/new/"

URL_GET_INSTITUTIONS ==
    "https://bankaccountdata.gocardless.com/api/v2/institutions/?country=gb"

URL_CREATE_END_USER_AGREEMENT ==
    "https://bankaccountdata.gocardless.com/api/v2/agreements/enduser/"

URL_REQUISITIONS == "https://bankaccountdata.gocardless.com/api/v2/requisitions/"

UrlTransactions(account_id) ==
    "https://bankaccountdata.gocardless.com/api/v2/accounts/" \o account_id \o "/transactions"

\* a balances URL with a pasted account id in place of the parameter
UrlBalances_fixed_account(account_id) ==
    "https://bankaccountdata.gocardless.com/api/v2/accounts/" \o "account-1" \o "/balances"

UrlBalances(account_id) ==
    "https://bankaccountdata.gocardless.com/api/v2/accounts/" \o account_id \o "/balances"

UrlDetails(account_id) ==
    "https://bankaccountdata.gocardless.com/api/v2/accounts/" \o account_id \o "/details"

\* the Client struct as Client::new first builds it
NewClient(secret_id, secret_key) ==
    [secret_id |-> IntoSecret(secret_id),
     secret_key |-> IntoSecret(secret_key),
     created_token |-> None]

\* the refresh token read in place of the access token
AccessToken_refresh(self) == Unwrap(self.created_token).refresh

\* self.created_token.clone().unwrap().access; the callers guard the unwrap
AccessToken(self) == Unwrap(self.created_token).access

create_token_request(self) ==
    WithHeader(
        WithHeader(
            WithBody(Post(URL_CREATE_TOKEN),
                     JObj([secret_id |-> JStr(ExposeSecret(self.secret_id)),
                           secret_key |-> JStr(ExposeSecret(self.secret_key))])),
            "Accept", "application/json"),
        "Content-Type", "application/json")

get_institutions_request(self) ==
    WithHeader(
        WithHeader(Get(URL_GET_INSTITUTIONS), "Accept", "application/json"),
        "Authorization", Bearer(AccessToken(self)))

\* create_end_user_agreement with the history length pasted in place of the parameter
create_end_user_agreement_request_fixed_days(self, institution_id, max_historical_days) ==
    WithHeader(
        WithHeader(
            WithHeader(
                WithBody(Post(URL_CREATE_END_USER_AGREEMENT),
                         JObj([institution_id |-> JStr(institution_id),
                               max_historical_days |-> JNum(90),
                               access_valid_for_days |-> JStr("30"),
                               access_scope |-> JArr(<<JStr("balances"), JStr("details"),
                                                       JStr("transactions")>>)])),
                "Accept", "application/json"),
            "Content-Type", "application/json"),
        "Authorization", Bearer(AccessToken(self)))

\* create_end_user_agreement without its Content-Type header
create_end_user_agreement_request_no_content_type(self, institution_id, max_historical_days) ==
    WithHeader(
        WithHeader(
            WithBody(Post(URL_CREATE_END_USER_AGREEMENT),
                     JObj([institution_id |-> JStr(institution_id),
                           max_historical_days |-> JNum(max_historical_days),
                           access_valid_for_days |-> JStr("30"),
                           access_scope |-> JArr(<<JStr("balances"), JStr("details"),
                                                   JStr("transactions")>>)])),
            "Accept", "application/json"),
        "Authorization", Bearer(AccessToken(self)))

create_end_user_agreement_request(self, institution_id, max_historical_days) ==
    WithHeader(
        WithHeader(
            WithHeader(
                WithBody(Post(URL_CREATE_END_USER_AGREEMENT),
                         JObj([institution_id |-> JStr(institution_id),
                               max_historical_days |-> JNum(max_historical_days),
                               access_valid_for_days |-> JStr("30"),
                               access_scope |-> JArr(<<JStr("balances"), JStr("details"),
                                                       JStr("transactions")>>)])),
                "Accept", "application/json"),
            "Content-Type", "application/json"),
        "Authorization", Bearer(AccessToken(self)))

\* list_requisitions that authenticates with the secret key
list_requisitions_request_secret_bearer(self) ==
    WithHeader(
        WithHeader(Get(URL_REQUISITIONS), "Accept", "application/json"),
        "Authorization", Bearer(ExposeSecret(self.secret_key)))

list_requisitions_request(self) ==
    WithHeader(
        WithHeader(Get(URL_REQUISITIONS), "Accept", "application/json"),
        "Authorization", Bearer(AccessToken(self)))

\* create_requisition that leaves the reference out of the body
create_requisition_request_reference_dropped(self, redirect, institution_id, agreement_id, reference) ==
    LET base == [redirect |-> JStr(redirect),
                 institution_id |-> JStr(institution_id),
                 user_language |-> JStr("EN")]
        request == IF IsSome(agreement_id)
                   THEN ("agreement" :> JStr(Unwrap(agreement_id))) @@ base
                   ELSE base
    IN WithHeader(
           WithHeader(
               WithHeader(WithBody(Post(URL_REQUISITIONS), JObj(request)),
                          "Accept", "application/json"),
               "Content-Type", "application/json"),
           "Authorization", Bearer(AccessToken(self)))

\* agreement_id and reference are Option<&str>: a key is set only for Some
create_requisition_request(self, redirect, institution_id, agreement_id, reference) ==
    LET base == [redirect |-> JStr(redirect),
                 institution_id |-> JStr(institution_id),
                 user_language |-> JStr("EN")]
        withRef == IF IsSome(reference)
                   THEN ("reference" :> JStr(Unwrap(reference))) @@ base
                   ELSE base
        request == IF IsSome(agreement_id)
                   THEN ("agreement" :> JStr(Unwrap(agreement_id))) @@ withRef
                   ELSE withRef
    IN WithHeader(
           WithHeader(
               WithHeader(WithBody(Post(URL_REQUISITIONS), JObj(request)),
                          "Accept", "application/json"),
               "Content-Type", "application/json"),
           "Authorization", Bearer(AccessToken(self)))

list_transactions_request(self, account_id) ==
    WithHeader(
        WithHeader(Get(UrlTransactions(account_id)), "Accept", "application/json"),
        "Authorization", Bearer(AccessToken(self)))

list_balances_request(self, account_id) ==
    WithHeader(
        WithHeader(Get(UrlBalances(account_id)), "Accept", "application/json"),
        "Authorization", Bearer(AccessToken(self)))

get_account_details_request(self, account_id) ==
    WithHeader(
        WithHeader(Get(UrlDetails(account_id)), "Accept", "application/json"),
        "Authorization", Bearer(AccessToken(self)))

(***************************************************************************)
(* The transport's outcome of one send(), and what a handler makes of it.  *)
(* An outcome is a failure of the transport (at send, or while the body is *)
(* read) or a response: a status and a body that is a JSON text or not.    *)
(***************************************************************************)
TransportFailure(at) == [kind |-> "failure", at |-> at]

Response(status, body) == [kind |-> "response", status |-> status, json |-> TRUE, body |-> body]

\* a body that is no JSON text (an HTML page of a gateway)
NotJson(status) == [kind |-> "response", status |-> status, json |-> FALSE, body |-> JNull]

\* the error of a Result<_, Box<dyn Error>>: the concrete error type (source)
\* and its kind; a reqwest::Error of send() names the URL of the request
Err(kind, source, url) == [ok |-> FALSE, err |-> [kind |-> kind, source |-> source, url |-> url]]

\* .send().await?.json().await?
JsonResult(ty, req, outcome) ==
    IF outcome.kind = "failure" THEN Err("Transport", "reqwest", Some(req.url))
    ELSE IF ~outcome.json THEN Err("Decode", "reqwest", None)
    ELSE LET d == Decode(ty, outcome.body)
         IN IF d.ok THEN Ok(d.v) ELSE Err("Decode", "reqwest", None)

\* .send().await?.text().await? and then serde_json::from_str(&response)?
TextResult(ty, req, outcome) ==
    IF outcome.kind = "failure" THEN Err("Transport", "reqwest", Some(req.url))
    ELSE IF ~outcome.json THEN Err("Decode", "serde_json", None)
    ELSE LET d == Decode(ty, outcome.body)
         IN IF d.ok THEN Ok(d.v) ELSE Err("Decode", "serde_json", None)

create_token_result(req, outcome) == JsonResult(CreateTokenResponseTy, req, outcome)

get_institutions_result(req, outcome) == JsonResult(TVec(InstitutionTy), req, outcome)

create_end_user_agreement_result(req, outcome) == TextResult(EndUserAgreementTy, req, outcome)

list_requisitions_result(req, outcome) == JsonResult(ListRequisitionsResponseTy, req, outcome)

create_requisition_result(req, outcome) == JsonResult(RequisitionTy, req, outcome)

list_transactions_result(req, outcome) == TextResult(ListTransactionsResponseTy, req, outcome)

list_balances_result(req, outcome) == JsonResult(ListBalancesResponseTy, req, outcome)

get_account_details_result(req, outcome) == JsonResult(AccountDetailsResponseTy, req, outcome)

\* Client::new that returns c without storing the token (line 68 left out)
new_result_token_not_stored(c, r) ==
    IF r.ok THEN Ok(c) ELSE r

\* Client::new that returns c whatever create_token returned (a dropped `?`)
new_result_error_dropped(c, r) ==
    IF r.ok THEN Ok([c EXCEPT !.created_token = Some(r.v)]) ELSE Ok(c)

\* Client::new after create_token has returned r: `?` hands an error on, a
\* token is stored in c.created_token and c is returned
new_result(c, r) ==
    IF r.ok THEN Ok([c EXCEPT !.created_token = Some(r.v)]) ELSE r

(***************************************************************************)
(* The caller's inputs                                                     *)
(***************************************************************************)
SecretIds == {"sid-valid", "sid-wrong"}

SecretKeys == {"key-valid", "key-wrong"}

InstitutionIds == {"STARLING_SRLGGB3L"}

HistoricalDays == {90, 180}

Redirects == {"https://www.example.org"}

AgreementIds == {None, Some("agreement-1")}

References == {None, Some("reference-1")}

AccountIds == {"account-1", "account-2"}

\* the number of operations the caller invokes in one run
MaxCalls == 3

(***************************************************************************)
(* The remote API and the transport.  The remote follows its documented    *)
(* contract: it issues a token to the valid credentials alone, it answers  *)
(* a rejected request with a non-2xx status and its error document, and a  *)
(* request with a valid bearer token with a document of the endpoint or    *)
(* with a rejection (an expired token, a duplicate reference).  The        *)
(* transport may fail, and may deliver a body that is no JSON or that is   *)
(* an empty JSON object.                                                   *)
(***************************************************************************)
AccessTokens == {"access-1", "access-2"}

TokenJson(access) ==
    JObj([access |-> JStr(access), access_expires |-> JNum(86400),
          refresh |-> JStr("refresh-of-" \o access), refresh_expires |-> JNum(2592000)])

ErrorJson(status) ==
    JObj([summary |-> JStr("Request rejected"), detail |-> JStr("The request was rejected"),
          status_code |-> JNum(status)])

Rejection(status) == Response(status, ErrorJson(status))

InstitutionJson ==
    JObj([id |-> JStr("STARLING_SRLGGB3L"), name |-> JStr("Starling Bank"),
          bic |-> JStr("SRLGGB3L"), transaction_total_days |-> JStr("730"),
          countries |-> JArr(<<JStr("GB")>>), logo |-> JStr("https://cdn.example/starling.png")])

RequisitionJson(status, redirect, institution_id, agreement, reference, accounts) ==
    JObj([id |-> JStr("requisition-1"), created |-> JStr("2024-01-01T00:00:00Z"),
          redirect |-> redirect, status |-> JStr(status), institution_id |-> institution_id,
          agreement |-> agreement, reference |-> reference, accounts |-> JArr(accounts),
          user_language |-> JStr("EN"), link |-> JStr("https://ob.example/start/requisition-1"),
          account_selection |-> JBool(FALSE), redirect_immediate |-> JBool(FALSE)])

\* the amounts of the remote's documents: decimal strings
Amounts == <<"12.34", "12.3400", "-0.50">>

TransactionJson(amount) ==
    JObj([transactionId |-> JStr("tx-1"), bookingDate |-> JStr("2024-01-02"),
          bookingDateTime |-> JStr("2024-01-02T10:00:00Z"),
          transactionAmount |-> JObj([amount |-> JStr(amount), currency |-> JStr("GBP")]),
          creditorName |-> JStr("Shop")])

BalanceJson(amount) ==
    JObj([balanceAmount |-> JObj([amount |-> JStr(amount), currency |-> JStr("GBP")]),
          balanceType |-> JStr("interimAvailable"), referenceDate |-> JStr("2024-01-02")])

AccountJson(status) ==
    JObj([resourceId |-> JStr("resource-1"), currency |-> JStr("GBP"),
          ownerName |-> JStr("A. Owner"), status |-> JStr(status), usage |-> JStr("PRIV")])

\* the requisition status codes the remote documents, and a code it may
\* introduce later
DocumentedStatusCodes == {"CR", "GC", "UA", "RJ", "SA", "GA", "LN", "EX"}

NewStatusCode == "XX"

\* the account status of the remote's documents, and one it may introduce later
AccountStatusCodes == {"enabled", "suspended"}

BodyKey(req, key, missing) ==
    IF IsSome(req.body) /\ Unwrap(req.body).t = "obj" /\ key \in DOMAIN Unwrap(req.body).o
    THEN Unwrap(req.body).o[key]
    ELSE missing

\* the remote knows the bearer tokens it has issued
BearerAccepted(req) ==
    /\ "Authorization" \in DOMAIN req.headers
    /\ \E a \in AccessTokens : req.headers["Authorization"] = "Bearer " \o a

CredentialsAccepted(req) ==
    /\ BodyKey(req, "secret_id", JNull) = JStr("sid-valid")
    /\ BodyKey(req, "secret_key", JNull) = JStr("key-valid")

\* the documents the remote gives to an accepted request of each endpoint
RemoteDocuments(req) ==
    CASE req.method = "GET" /\ req.url = URL_GET_INSTITUTIONS ->
            {Response(200, JArr(<<InstitutionJson>>))}
      [] req.method = "POST" /\ req.url = URL_CREATE_END_USER_AGREEMENT ->
            {Response(201,
                JObj([id |-> JStr("agreement-1"), created |-> JStr("2024-01-01T00:00:00Z"),
                      institution_id |-> BodyKey(req, "institution_id", JNull),
                      max_historical_days |-> BodyKey(req, "max_historical_days", JNull),
                      access_valid_for_days |-> JNum(30),
                      access_scope |-> BodyKey(req, "access_scope", JNull)])),
             Rejection(400)}
      [] req.method = "GET" /\ req.url = URL_REQUISITIONS ->
            {Response(200,
                JObj([count |-> JNum(1),
                      results |-> JArr(<<RequisitionJson(code, JStr("https://www.example.org"),
                                            JStr("STARLING_SRLGGB3L"), JStr("agreement-1"),
                                            JStr("reference-1"), <<JStr("account-1")>>)>>)])) :
               code \in DocumentedStatusCodes \cup {NewStatusCode}}
      [] req.method = "POST" /\ req.url = URL_REQUISITIONS ->
            {Response(201,
                RequisitionJson(code, BodyKey(req, "redirect", JNull),
                                BodyKey(req, "institution_id", JNull),
                                BodyKey(req, "agreement", JStr("agreement-default")),
                                BodyKey(req, "reference", JStr("reference-generated")), <<>>)) :
               code \in {"CR", NewStatusCode}}
            \cup {Rejection(400)}
      [] req.method = "GET" /\ \E a \in AccountIds : req.url = UrlTransactions(a) ->
            {Response(200,
                JObj([transactions |->
                        JObj([booked |-> JArr([i \in DOMAIN Amounts |->
                                                  TransactionJson(Amounts[i])]),
                              pending |-> JArr(<<>>)])])),
             Response(200,
                JObj([transactions |->
                        JObj([booked |-> JArr(<<TransactionJson(Amounts[1])>>)])]))}
      [] req.method = "GET" /\ \E a \in AccountIds : req.url = UrlBalances(a) ->
            {Response(200,
                JObj([balances |-> JArr([i \in DOMAIN Amounts |-> BalanceJson(Amounts[i])])])),
             Response(200, JObj([balances |-> JArr(<<>>)]))}
      [] req.method = "GET" /\ \E a \in AccountIds : req.url = UrlDetails(a) ->
            {Response(200, JObj([account |-> AccountJson(status)])) :
               status \in AccountStatusCodes}
      [] OTHER -> {Rejection(404)}

Remote(req) ==
    IF req.method = "POST" /\ req.url = URL_CREATE_TOKEN
    THEN IF CredentialsAccepted(req)
         THEN {Response(200, TokenJson(a)) : a \in AccessTokens}
         ELSE {Rejection(401)}
    ELSE IF BearerAccepted(req)
         THEN RemoteDocuments(req) \cup {Rejection(401)}
         ELSE {Rejection(401)}

Outcomes(req) ==
    {TransportFailure("send"), TransportFailure("body"), NotJson(502),
     Response(200, JObj([k \in {} |-> JNull]))} \cup Remote(req)

(***************************************************************************)
(* The state machine                                                       *)
(***************************************************************************)
Init ==
    /\ client = None
    /\ constructing = None
    /\ inflight = EmptyBag
    /\ last = None
    /\ minted = None
    /\ started = 0
    /\ wire = 0

\* the record of a call that has returned to the caller
Returned(op, args, req, outcome, result, nsent) ==
    [op |-> op, args |-> args, req |-> req, outcome |-> outcome, result |-> result,
     nsent |-> nsent]

\* Option::unwrap on None
Panic == [ok |-> FALSE, err |-> [kind |-> "Panic", source |-> "unwrap", url |-> None]]

\* the operation hands req to the transport with send() and awaits it
Suspend(op, args, req) ==
    /\ inflight' = inflight (+) SetToBag({[op |-> op, args |-> args, req |-> req,
                                           nsent |-> 1]})
    /\ wire' = wire + 1
    /\ started' = started + 1
    /\ UNCHANGED <<client, constructing, last, minted>>

\* the operation panics in created_token.clone().unwrap() before any request
Unwind(op, args) ==
    /\ last' = Some(Returned(op, args, None, None, Panic, 0))
    /\ started' = started + 1
    /\ UNCHANGED <<client, constructing, inflight, minted, wire>>

\* a data-fetching operation is invoked on the client the caller holds
Invoke(op, self, args, req) ==
    /\ started < MaxCalls
    /\ IF IsSome(self.created_token) THEN Suspend(op, args, req) ELSE Unwind(op, args)

\* the transport completes the request of a suspended call, which returns result
Complete(call, outcome, result) ==
    /\ inflight' = inflight (-) SetToBag({call})
    /\ last' = Some(Returned(call.op, call.args, Some(call.req), Some(outcome), result,
                             call.nsent))
    /\ UNCHANGED <<client, constructing, minted, started, wire>>

\* Client::new up to its await of c.create_token()
new_call ==
    /\ client = None
    /\ constructing = None
    /\ started < MaxCalls
    /\ \E secret_id \in SecretIds, secret_key \in SecretKeys :
          LET c == NewClient(secret_id, secret_key)
          IN constructing' = Some([c |-> c, args |-> <<secret_id, secret_key>>,
                                   req |-> create_token_request(c), nsent |-> 1])
    /\ wire' = wire + 1
    /\ started' = started + 1
    /\ UNCHANGED <<client, inflight, last, minted>>

\* Client::new from the return of create_token to its own return
new_resume ==
    /\ IsSome(constructing)
    /\ LET n == Unwrap(constructing)
       IN \E outcome \in Outcomes(n.req) :
             LET token == create_token_result(n.req, outcome)
                 result == new_result(n.c, token)
             IN /\ client' = IF result.ok THEN Some(result.v) ELSE client
                /\ minted' = IF token.ok THEN Some(token.v) ELSE minted
                /\ last' = Some(Returned("new", n.args, Some(n.req), Some(outcome),
                                         IF result.ok THEN Ok("Client") ELSE result,
                                         n.nsent))
    /\ constructing' = None
    /\ UNCHANGED <<inflight, started, wire>>

\* a create_token that stores the token it has obtained in the client
create_token_self_storing(self, r) ==
    IF r.ok THEN [self EXCEPT !.created_token = Some(r.v)] ELSE self

\* create_token takes &self: the client is as it was, whatever r is
create_token_self(self, r) == self

\* the public create_token on the client the caller holds
create_token_call ==
    /\ IsSome(client)
    /\ started < MaxCalls
    /\ Suspend("create_token", <<>>, create_token_request(Unwrap(client)))

create_token_resume ==
    \E call \in BagToSet(inflight) : \E outcome \in Outcomes(call.req) :
        /\ call.op = "create_token"
        /\ LET r == create_token_result(call.req, outcome)
           IN /\ inflight' = inflight (-) SetToBag({call})
              /\ last' = Some(Returned(call.op, call.args, Some(call.req), Some(outcome), r,
                                       call.nsent))
              /\ client' = Some(create_token_self(Unwrap(client), r))
        /\ UNCHANGED <<constructing, minted, started, wire>>

get_institutions_call ==
    /\ IsSome(client)
    /\ LET self == Unwrap(client)
       IN Invoke("get_institutions", self, <<>>, get_institutions_request(self))

get_institutions_resume ==
    \E call \in BagToSet(inflight) : \E outcome \in Outcomes(call.req) :
        /\ call.op = "get_institutions"
        /\ Complete(call, outcome, get_institutions_result(call.req, outcome))

create_end_user_agreement_call ==
    /\ IsSome(client)
    /\ \E institution_id \in InstitutionIds, max_historical_days \in HistoricalDays :
          LET self == Unwrap(client)
          IN Invoke("create_end_user_agreement", self,
                    <<institution_id, max_historical_days>>,
                    create_end_user_agreement_request(self, institution_id,
                                                      max_historical_days))

create_end_user_agreement_resume ==
    \E call \in BagToSet(inflight) : \E outcome \in Outcomes(call.req) :
        /\ call.op = "create_end_user_agreement"
        /\ Complete(call, outcome, create_end_user_agreement_result(call.req, outcome))

list_requisitions_call ==
    /\ IsSome(client)
    /\ LET self == Unwrap(client)
       IN Invoke("list_requisitions", self, <<>>, list_requisitions_request(self))

list_requisitions_resume ==
    \E call \in BagToSet(inflight) : \E outcome \in Outcomes(call.req) :
        /\ call.op = "list_requisitions"
        /\ Complete(call, outcome, list_requisitions_result(call.req, outcome))

create_requisition_call ==
    /\ IsSome(client)
    /\ \E redirect \in Redirects, institution_id \in InstitutionIds,
          agreement_id \in AgreementIds, reference \in References :
          LET self == Unwrap(client)
          IN Invoke("create_requisition", self,
                    <<redirect, institution_id, agreement_id, reference>>,
                    create_requisition_request(self, redirect, institution_id,
                                               agreement_id, reference))

create_requisition_resume ==
    \E call \in BagToSet(inflight) : \E outcome \in Outcomes(call.req) :
        /\ call.op = "create_requisition"
        /\ Complete(call, outcome, create_requisition_result(call.req, outcome))

list_transactions_call ==
    /\ IsSome(client)
    /\ \E account_id \in AccountIds :
          LET self == Unwrap(client)
          IN Invoke("list_transactions", self, <<account_id>>,
                    list_transactions_request(self, account_id))

\* a list_transactions that sends its request again when the first one failed
list_transactions_resume_retrying ==
    \E call \in BagToSet(inflight) : \E outcome \in Outcomes(call.req) :
        /\ call.op = "list_transactions"
        /\ LET r == list_transactions_result(call.req, outcome)
           IN IF r.ok \/ call.nsent > 1
              THEN Complete(call, outcome, r)
              ELSE /\ inflight' = (inflight (-) SetToBag({call}))
                                      (+) SetToBag({[call EXCEPT !.nsent = @ + 1]})
                   /\ wire' = wire + 1
                   /\ UNCHANGED <<client, constructing, last, minted, started>>

list_transactions_resume ==
    \E call \in BagToSet(inflight) : \E outcome \in Outcomes(call.req) :
        /\ call.op = "list_transactions"
        /\ Complete(call, outcome, list_transactions_result(call.req, outcome))

list_balances_call ==
    /\ IsSome(client)
    /\ \E account_id \in AccountIds :
          LET self == Unwrap(client)
          IN Invoke("list_balances", self, <<account_id>>,
                    list_balances_request(self, account_id))

list_balances_resume ==
    \E call \in BagToSet(inflight) : \E outcome \in Outcomes(call.req) :
        /\ call.op = "list_balances"
        /\ Complete(call, outcome, list_balances_result(call.req, outcome))

get_account_details_call ==
    /\ IsSome(client)
    /\ \E account_id \in AccountIds :
          LET self == Unwrap(client)
          IN Invoke("get_account_details", self, <<account_id>>,
                    get_account_details_request(self, account_id))

get_account_details_resume ==
    \E call \in BagToSet(inflight) : \E outcome \in Outcomes(call.req) :
        /\ call.op = "get_account_details"
        /\ Complete(call, outcome, get_account_details_result(call.req, outcome))

Next ==
    \/ new_call
    \/ new_resume
    \/ create_token_call
    \/ create_token_resume
    \/ get_institutions_call
    \/ get_institutions_resume
    \/ create_end_user_agreement_call
    \/ create_end_user_agreement_resume
    \/ list_requisitions_call
    \/ list_requisitions_resume
    \/ create_requisition_call
    \/ create_requisition_resume
    \/ list_transactions_call
    \/ list_transactions_resume
    \/ list_balances_call
    \/ list_balances_resume
    \/ get_account_details_call
    \/ get_account_details_resume

Spec == Init /\ [][Next]_vars

(***************************************************************************)
(* Properties                                                              *)
(***************************************************************************)
Is2xx(status) == status >= 200 /\ status < 300

\* the call that returned most recently was of operation op
LastIs(op) == IsSome(last) /\ Unwrap(last).op = op

LastOutcome == Unwrap(Unwrap(last).outcome)

LastResult == Unwrap(last).result

\* the body carries the four keys of a token document
TokenShaped(outcome) ==
    /\ outcome.json
    /\ outcome.body.t = "obj"
    /\ {"access", "access_expires", "refresh", "refresh_expires"} \subseteq DOMAIN outcome.body.o

\* the authentication call of Client::new failed: the transport failed, the
\* remote rejected the credentials, or the body is no token document
AuthCallFailed(outcome) ==
    \/ outcome.kind = "failure"
    \/ ~Is2xx(outcome.status)
    \/ ~TokenShaped(outcome)

\* C1: when the authentication call of Client::new fails (transport failure,
\* rejection of the credentials, undecodable token response), Client::new
\* returns an error and produces no client; the caller never holds a client
\* whose token is absent.
C1_FailedAuthYieldsNoClient ==
    /\ IsSome(client) => IsSome(Unwrap(client).created_token)
    /\ LastIs("new") /\ AuthCallFailed(LastOutcome) => ~LastResult.ok /\ client = None

\* C1 witness: the remote has rejected invalid credentials with 401 and
\* Client::new has returned an error.
C1_Witness ==
    /\ LastIs("new")
    /\ LastOutcome.kind = "response"
    /\ LastOutcome.status = 401
    /\ ~LastResult.ok
    /\ client = None

\* C2: a client returned by Client::new has its token field populated and a
\* non-empty access token, for every token response of the remote.
C2_ReturnedClientHasAccessToken ==
    IsSome(client) =>
        /\ IsSome(Unwrap(client).created_token)
        /\ Unwrap(Unwrap(client).created_token).access # ""

\* C2 witness: Client::new has just returned a client.
C2_Witness == LastIs("new") /\ LastResult.ok /\ IsSome(client)

\* C3: a non-2xx response to any operation is returned to the caller as an
\* ApiError that carries the status code, distinct from a transport failure
\* and from a decode failure.
C3_NonSuccessStatusIsApiError ==
    IsSome(last) /\ IsSome(Unwrap(last).outcome) /\ LastOutcome.kind = "response"
                 /\ ~Is2xx(LastOutcome.status)
        => /\ ~LastResult.ok
           /\ LastResult.err.kind = "Api"
           /\ LastResult.err.status = LastOutcome.status

\* the calls of the data-fetching operations that are suspended on the transport
DataCalls == {call \in BagToSet(inflight) : call.op # "create_token"}

HasBearer(req, access_token) ==
    /\ "Authorization" \in DOMAIN req.headers
    /\ req.headers["Authorization"] = "Bearer " \o access_token

\* C4: the stored token is written once, in construction: once Client::new
\* has returned the client, no operation (the public create_token included)
\* changes its token or its credentials or takes the token away, and every
\* request of a data-fetching operation carries the access token minted in
\* construction, also after create_token has returned another token.
C4_TokenWrittenOnce ==
    /\ [][IsSome(client) => client' = client]_vars
    /\ [](IsSome(client) =>
            /\ Unwrap(client).created_token = minted
            /\ \A call \in DataCalls : HasBearer(call.req, Unwrap(minted).access))

\* C4 witness: the public create_token has returned a token other than the
\* stored one and a data-fetching request with the stored token is in flight.
C4_Witness ==
    /\ LastIs("create_token")
    /\ LastResult.ok
    /\ LastResult.v.access # Unwrap(minted).access
    /\ Unwrap(client).created_token = minted
    /\ \E call \in DataCalls : HasBearer(call.req, Unwrap(minted).access)

\* C5: no data-fetching operation runs on an unauthenticated client: every
\* client the caller holds has its token, calls exist only on such a client,
\* and no operation has panicked in the unwrap of created_token.
C5_UnwrapNeverFails ==
    /\ IsSome(client) => IsSome(Unwrap(client).created_token)
    /\ DataCalls # {} => IsSome(client)
    /\ IsSome(last) /\ ~LastResult.ok => LastResult.err.kind # "Panic"

\* C5 witness: a data-fetching operation has run on the client and returned.
C5_Witness ==
    /\ IsSome(last)
    /\ Unwrap(last).op \notin {"new", "create_token"}
    /\ LastResult.ok

\* C6: every call of an operation, construction included, hands exactly one
\* request to the transport and returns only with the outcome of that
\* request; a failure sends no second request and no request is sent
\* outside a call.
C6_OneRequestPerCall ==
    /\ wire = started
    /\ \A call \in BagToSet(inflight) : call.nsent = 1
    /\ IsSome(constructing) => Unwrap(constructing).nsent = 1
    /\ IsSome(last) => Unwrap(last).nsent = 1 /\ IsSome(Unwrap(last).outcome)
    /\ BagCardinality(inflight) + Len(constructing) <= started

\* C6 witness: list_transactions has returned a transport failure after its
\* one request.
C6_Witness ==
    /\ LastIs("list_transactions")
    /\ LastOutcome.kind = "failure"
    /\ ~LastResult.ok
    /\ Unwrap(last).nsent = 1
    /\ wire = started

\* C7: when data-fetching operations run concurrently on one client, each of
\* their requests carries the access token of the one complete token minted
\* in construction, under every interleaving.
C7_ConcurrentCallsShareToken ==
    \A call \in DataCalls :
        /\ IsSome(client)
        /\ IsSome(Unwrap(client).created_token)
        /\ Unwrap(Unwrap(client).created_token) = Unwrap(minted)
        /\ HasBearer(call.req, Unwrap(Unwrap(client).created_token).access)
        /\ \A other \in DataCalls :
              other.req.headers["Authorization"] = call.req.headers["Authorization"]

\* C7 witness: list_requisitions and list_balances are in flight together.
C7_Witness ==
    /\ \E call \in DataCalls : call.op = "list_requisitions"
    /\ \E call \in DataCalls : call.op = "list_balances"

\* P holds of every request the client has handed to the transport that the
\* state still shows: of the suspended calls, of Client::new and of the call
\* that returned last
EveryRequest(P(_, _, _)) ==
    /\ \A call \in BagToSet(inflight) : P(call.op, call.args, call.req)
    /\ IsSome(constructing) =>
          P("new", Unwrap(constructing).args, Unwrap(constructing).req)
    /\ IsSome(last) /\ IsSome(Unwrap(last).req) =>
          P(Unwrap(last).op, Unwrap(last).args, Unwrap(Unwrap(last).req))

\* the operations that mint a token
Minting == {"new", "create_token"}

\* the type of the value an operation returns
ResultTy(op) ==
    CASE op = "create_token" -> CreateTokenResponseTy
      [] op = "get_institutions" -> TVec(InstitutionTy)
      [] op = "create_end_user_agreement" -> EndUserAgreementTy
      [] op = "list_requisitions" -> ListRequisitionsResponseTy
      [] op = "create_requisition" -> RequisitionTy
      [] op = "list_transactions" -> ListTransactionsResponseTy
      [] op = "list_balances" -> ListBalancesResponseTy
      [] op = "get_account_details" -> AccountDetailsResponseTy

\* the strings held by a value v of the type ty
RECURSIVE ValueStrings(_, _)
ValueStrings(ty, v) ==
    CASE ty.k \in {"string", "enum"} -> {v}
      [] ty.k \in {"vec", "option"} -> UNION {ValueStrings(ty.of, v[i]) : i \in DOMAIN v}
      [] ty.k = "struct" ->
            UNION {ValueStrings(ty.fields[i].ty, v[ty.fields[i].name]) :
                     i \in DOMAIN ty.fields}
      [] OTHER -> {}

AllSecrets == SecretIds \cup SecretKeys

Leaks(str) == \E secret \in AllSecrets : Contains(str, secret)

C8_Request(op, args, req) ==
    /\ ~Leaks(req.url)
    /\ \A h \in DOMAIN req.headers : ~Leaks(req.headers[h])
    /\ op \notin Minting =>
          /\ req.url # URL_CREATE_TOKEN
          /\ IsSome(req.body) => \A str \in JStrings(Unwrap(req.body)) : ~Leaks(str)

\* C8: the secret id and the secret key occur in the body of the token-mint
\* request alone: in no URL and no header, in no request of another
\* operation, in no value and in no error returned to the caller.
C8_SecretsOnlyInTokenRequestBody ==
    /\ EveryRequest(C8_Request)
    /\ IsSome(last) =>
          IF LastResult.ok
          THEN Unwrap(last).op # "new" =>
                  \A str \in ValueStrings(ResultTy(Unwrap(last).op), LastResult.v) :
                      ~Leaks(str)
          ELSE /\ ~Leaks(LastResult.err.kind)
               /\ ~Leaks(LastResult.err.source)
               /\ \A i \in DOMAIN LastResult.err.url : ~Leaks(LastResult.err.url[i])

\* C8 witness: the token-mint request with both secrets in its body has been
\* answered with a token, which the caller got, and a data-fetching request
\* is in flight.
C8_Witness ==
    /\ LastIs("create_token")
    /\ LastResult.ok
    /\ \E str \in JStrings(Unwrap(Unwrap(Unwrap(last).req).body)) : Leaks(str)
    /\ DataCalls # {}

C9_Request(op, args, req) ==
    /\ "Accept" \in DOMAIN req.headers
    /\ req.headers["Accept"] = "application/json"
    /\ op \in Minting \cup {"create_end_user_agreement", "create_requisition"} =>
          req.method = "POST"
    /\ req.method = "POST" =>
          /\ "Content-Type" \in DOMAIN req.headers
          /\ req.headers["Content-Type"] = "application/json"
    /\ IF op \in Minting
       THEN "Authorization" \notin DOMAIN req.headers
       ELSE /\ IsSome(client)
            /\ IsSome(Unwrap(client).created_token)
            /\ "Authorization" \in DOMAIN req.headers
            /\ req.headers["Authorization"]
                  = "Bearer " \o Unwrap(Unwrap(client).created_token).access

\* C9: every request sends Accept: application/json, every POST request
\* (token, agreement, requisition) also Content-Type: application/json, every
\* request but the token-mint request Authorization: Bearer <access token of
\* the stored token>, and the token-mint request no Authorization header.
C9_RequestHeaders == EveryRequest(C9_Request)

\* C9 witness: a token-mint request has been answered, the POST of
\* create_end_user_agreement and a GET of get_account_details are in flight.
C9_Witness ==
    /\ LastIs("new")
    /\ \E call \in DataCalls : call.op = "create_end_user_agreement"
    /\ \E call \in DataCalls : call.op = "get_account_details"

ApiHost == "https://bankaccountdata.gocardless.com"

\* the endpoint table: the method and the path of each operation
Endpoint(op, args) ==
    CASE op \in Minting -> [method |-> "POST", path |-> "/api/v2/token/new/"]
      [] op = "get_institutions" ->
            [method |-> "GET", path |-> "/api/v2/institutions/?country=gb"]
      [] op = "create_end_user_agreement" ->
            [method |-> "POST", path |-> "/api/v2/agreements/enduser/"]
      [] op = "list_requisitions" -> [method |-> "GET", path |-> "/api/v2/requisitions/"]
      [] op = "create_requisition" -> [method |-> "POST", path |-> "/api/v2/requisitions/"]
      [] op = "list_balances" ->
            [method |-> "GET", path |-> "/api/v2/accounts/" \o args[1] \o "/balances"]
      [] op = "get_account_details" ->
            [method |-> "GET", path |-> "/api/v2/accounts/" \o args[1] \o "/details"]
      [] op = "list_transactions" ->
            [method |-> "GET", path |-> "/api/v2/accounts/" \o args[1] \o "/transactions"]

C10_Request(op, args, req) ==
    /\ req.method = Endpoint(op, args).method
    /\ req.url = ApiHost \o Endpoint(op, args).path

\* C10: each operation uses the method and the path of the endpoint table on
\* the fixed API host, the account operations with {account_id} replaced by
\* exactly the account id the caller gave.
C10_EndpointTable == EveryRequest(C10_Request)

\* C10 witness: list_balances of account-2 is in flight and another account
\* operation of account-1 has returned.
C10_Witness ==
    /\ \E call \in DataCalls : call.op = "list_balances" /\ call.args = <<"account-2">>
    /\ IsSome(last)
    /\ Unwrap(last).op \in {"get_account_details", "list_transactions"}
    /\ Unwrap(last).args = <<"account-1">>

\* the JSON object a request carries as its body, and its keys
BodyObject(req) == Unwrap(req.body).o

HasObjectBody(req) == IsSome(req.body) /\ Unwrap(req.body).t = "obj"

C11_Request(op, args, req) ==
    op = "create_end_user_agreement" =>
        /\ HasObjectBody(req)
        /\ DOMAIN BodyObject(req)
              = {"institution_id", "max_historical_days", "access_valid_for_days",
                 "access_scope"}
        /\ BodyObject(req)["institution_id"] = JStr(args[1])
        /\ BodyObject(req)["max_historical_days"] = JNum(args[2])
        /\ BodyObject(req)["access_valid_for_days"] = JStr("30")
        /\ BodyObject(req)["access_scope"].t = "arr"
        /\ Len(BodyObject(req)["access_scope"].a) = 3
        /\ {BodyObject(req)["access_scope"].a[i] : i \in 1..3}
              = {JStr("balances"), JStr("details"), JStr("transactions")}

\* C11: every create-end-user-agreement request carries the caller's
\* institution id and max_historical_days unchanged, the access scope of
\* exactly balances, details and transactions, and the access validity of 30
\* days (sent as the JSON string "30"), whatever the caller's inputs are.
C11_AgreementRequestBody == EveryRequest(C11_Request)

\* C11 witness: create_end_user_agreement has returned for a history of 180
\* days and another call for a history of 90 days is in flight.
C11_Witness ==
    /\ LastIs("create_end_user_agreement")
    /\ Unwrap(last).args[2] = 180
    /\ \E call \in DataCalls :
          call.op = "create_end_user_agreement" /\ call.args[2] = 90

\* the body has the key exactly when the caller gave Some(value), with that value
CarriesOption(req, key, arg) ==
    IF IsSome(arg)
    THEN key \in DOMAIN BodyObject(req) /\ BodyObject(req)[key] = JStr(Unwrap(arg))
    ELSE key \notin DOMAIN BodyObject(req)

C12_Request_AllFour(op, args, req) ==
    op = "create_requisition" =>
        /\ HasObjectBody(req)
        /\ {"redirect", "institution_id", "agreement", "reference"}
              \subseteq DOMAIN BodyObject(req)
        /\ BodyObject(req)["redirect"] = JStr(args[1])
        /\ BodyObject(req)["institution_id"] = JStr(args[2])

C12_Request(op, args, req) ==
    op = "create_requisition" =>
        /\ HasObjectBody(req)
        /\ {"redirect", "institution_id", "user_language"} \subseteq DOMAIN BodyObject(req)
        /\ DOMAIN BodyObject(req)
              \subseteq {"redirect", "institution_id", "user_language", "agreement",
                         "reference"}
        /\ BodyObject(req)["redirect"] = JStr(args[1])
        /\ BodyObject(req)["institution_id"] = JStr(args[2])
        /\ BodyObject(req)["user_language"] = JStr("EN")
        /\ CarriesOption(req, "agreement", args[3])
        /\ CarriesOption(req, "reference", args[4])

LastDocument ==
    /\ IsSome(last)
    /\ IsSome(Unwrap(last).outcome)
    /\ LastOutcome.kind = "response"
    /\ LastOutcome.json
    /\ Is2xx(LastOutcome.status)
    /\ LastOutcome.body.t = "obj"

\* the response to list_transactions has a `transactions` object with a
\* `booked` array and no `pending` key
PendingKeyMissing ==
    /\ LastIs("list_transactions")
    /\ LastDocument
    /\ "transactions" \in DOMAIN LastOutcome.body.o
    /\ LastOutcome.body.o["transactions"].t = "obj"
    /\ "booked" \in DOMAIN LastOutcome.body.o["transactions"].o
    /\ "pending" \notin DOMAIN LastOutcome.body.o["transactions"].o

\* C13: decoding a transactions response whose `transactions` object has no
\* `pending` key succeeds and yields an empty pending sequence, with the
\* booked sequence as sent; it is not a decode failure.
C13_MissingPendingIsEmpty ==
    PendingKeyMissing =>
        /\ LastResult.ok
        /\ LastResult.v.transactions.pending = <<>>
        /\ Len(LastResult.v.transactions.booked)
              = Len(LastOutcome.body.o["transactions"].o["booked"].a)

\* list_requisitions or create_requisition has been answered with a 2xx
\* document that holds requisitions
RequisitionsReceived ==
    /\ LastIs("list_requisitions") \/ LastIs("create_requisition")
    /\ LastDocument
    /\ IF LastIs("list_requisitions")
       THEN /\ {"count", "results"} \subseteq DOMAIN LastOutcome.body.o
            /\ LastOutcome.body.o["results"].t = "arr"
       ELSE "status" \in DOMAIN LastOutcome.body.o

\* the requisition documents of that response, and the requisitions returned
WireRequisitions ==
    IF LastIs("list_requisitions") THEN LastOutcome.body.o["results"].a
    ELSE <<LastOutcome.body>>

ReturnedRequisitions ==
    IF LastIs("list_requisitions") THEN LastResult.v.results ELSE <<LastResult.v>>

WireStatus(i) == WireRequisitions[i].o["status"].s

\* the variant the specification names for each two-letter code
NamedVariant ==
    [CR |-> "Created", GC |-> "GivingConsent", UA |-> "UndergoingAuthentication",
     RJ |-> "Rejected", SA |-> "SelectingAccounts", GA |-> "GrantingAccess",
     LN |-> "Linked", EX |-> "Expired"]

\* C14: each of the eight documented codes CR, GC, UA, RJ, SA, GA, LN, EX
\* decodes to its named RequisitionStatus variant (LN to Linked), encoding
\* that variant yields the same code, and the mapping between codes and
\* variants is one-to-one.
C14_StatusCodesRoundTrip ==
    /\ RequisitionsReceived
          /\ (\A i \in DOMAIN WireRequisitions : WireStatus(i) \in DocumentedStatusCodes)
       => /\ LastResult.ok
          /\ \A i \in DOMAIN WireRequisitions :
                /\ ReturnedRequisitions[i].status = NamedVariant[WireStatus(i)]
                /\ Encode(RequisitionStatusTy, ReturnedRequisitions[i].status)
                      = JStr(WireStatus(i))
                /\ Encode(RequisitionTy, ReturnedRequisitions[i]).o["status"]
                      = JStr(WireStatus(i))
    /\ \A c1, c2 \in DocumentedStatusCodes :
          Decode(RequisitionStatusTy, JStr(c1)) = Decode(RequisitionStatusTy, JStr(c2))
             => c1 = c2
    /\ \A c \in DocumentedStatusCodes :
          /\ Decode(RequisitionStatusTy, JStr(c)) = Ok(NamedVariant[c])
          /\ Encode(RequisitionStatusTy, NamedVariant[c]) = JStr(c)

\* C14 witness: list_requisitions has returned a requisition sent with the
\* code LN, its status is Linked and Linked encodes to LN.
C14_Witness ==
    /\ LastIs("list_requisitions")
    /\ RequisitionsReceived
    /\ WireStatus(1) = "LN"
    /\ LastResult.ok
    /\ ReturnedRequisitions[1].status = "Linked"
    /\ Encode(RequisitionStatusTy, ReturnedRequisitions[1].status) = JStr("LN")

\* list_transactions or list_balances has been answered with a 2xx document
\* of its shape: every entry has an amount object with a string amount
WireAmounts ==
    IF LastIs("list_transactions")
    THEN [i \in DOMAIN LastOutcome.body.o["transactions"].o["booked"].a |->
             LastOutcome.body.o["transactions"].o["booked"].a[i].o["transactionAmount"]]
    ELSE [i \in DOMAIN LastOutcome.body.o["balances"].a |->
             LastOutcome.body.o["balances"].a[i].o["balanceAmount"]]

ReturnedAmounts ==
    IF LastIs("list_transactions")
    THEN [i \in DOMAIN LastResult.v.transactions.booked |->
             LastResult.v.transactions.booked[i].transaction_amount]
    ELSE [i \in DOMAIN LastResult.v.balances |-> LastResult.v.balances[i].balance_amount]

AmountTy == IF LastIs("list_transactions") THEN TransactionAmountTy ELSE BalanceAmountTy

AmountsReceived ==
    /\ LastDocument
    /\ \/ /\ LastIs("list_transactions")
          /\ "transactions" \in DOMAIN LastOutcome.body.o
          /\ {"booked", "pending"} \subseteq DOMAIN LastOutcome.body.o["transactions"].o
       \/ /\ LastIs("list_balances")
          /\ "balances" \in DOMAIN LastOutcome.body.o
    /\ \A i \in DOMAIN WireAmounts : WireAmounts[i].o["amount"].t = "str"

\* C15: every amount (transaction amount and balance amount) is held as the
\* exact string received: the decoded amount is that string and re-encoding
\* it yields the identical JSON string, with no numeric normalisation
\* ("12.34" stays "12.34", "12.3400" stays "12.3400").
C15_AmountsAreExactStrings ==
    AmountsReceived =>
        /\ LastResult.ok
        /\ DOMAIN ReturnedAmounts = DOMAIN WireAmounts
        /\ \A i \in DOMAIN WireAmounts :
              /\ ReturnedAmounts[i].amount = WireAmounts[i].o["amount"].s
              /\ Encode(AmountTy, ReturnedAmounts[i]).o["amount"] = WireAmounts[i].o["amount"]
              /\ Encode(AmountTy, ReturnedAmounts[i]) = WireAmounts[i]

\* C15 witness: list_transactions has returned the amounts "12.34" and
\* "12.3400" as two different strings.
C15_Witness ==
    /\ LastIs("list_transactions")
    /\ AmountsReceived
    /\ LastResult.ok
    /\ Len(ReturnedAmounts) >= 2
    /\ ReturnedAmounts[1].amount = "12.34"
    /\ ReturnedAmounts[2].amount = "12.3400"

\* the response to list_balances is a 2xx document with no balance entry: an
\* empty `balances` array, or no `balances` key
NoBalanceEntries ==
    /\ LastIs("list_balances")
    /\ LastDocument
    /\ "balances" \in DOMAIN LastOutcome.body.o =>
          LastOutcome.body.o["balances"] = JArr(<<>>)

\* C16: list_balances on a response with zero balance entries (an empty
\* `balances` array, or no `balances` key) returns success with an empty
\* sequence of balances, never an error.
C16_NoBalancesIsEmptySuccess ==
    NoBalanceEntries => LastResult.ok /\ LastResult.v.balances = <<>>

\* C16 witness: list_balances has returned an empty sequence for a document
\* without the `balances` key.
C16_Witness ==
    /\ NoBalanceEntries
    /\ "balances" \notin DOMAIN LastOutcome.body.o
    /\ LastResult.ok
    /\ LastResult.v.balances = <<>>

\* the response holds a requisition whose status code, or an account whose
\* status, is none of the documented codes
UnknownCodeReceived ==
    \/ /\ RequisitionsReceived
       /\ \E i \in DOMAIN WireRequisitions : WireStatus(i) \notin DocumentedStatusCodes
    \/ /\ LastIs("get_account_details")
       /\ LastDocument
       /\ "account" \in DOMAIN LastOutcome.body.o
       /\ LastOutcome.body.o["account"].o["status"].s \notin {"enabled", "deleted", "blocked"}

\* C17: decoding a requisition (or an account) whose status code is none of
\* the documented codes does not fail: list_requisitions and
\* create_requisition (and get_account_details) return success, the unknown
\* code held as a fallback variant.
C17_UnknownCodeDecodes == UnknownCodeReceived => LastResult.ok

====
